---- MODULE Spec2Model ----
(***************************************************************************)
(* Model of class Doenca (src/SIR_model_covid19.py): the constructor and   *)
(* run(), the explicit-Euler integrator of the S/I/C/D compartments.       *)
(*                                                                         *)
(* Python floats are IEEE 754 binary64 values.  A number is held as the    *)
(* record [sg, man, ex] with value (-1)^sg * man * 2^ex, man a natural     *)
(* number of any size (a sequence of limbs, least significant first),      *)
(* odd or zero.  Every float operation of the source is the exact          *)
(* operation followed by rounding to 53 significant bits, ties to even.    *)
(* The variable arith selects that rounding ("binary64", what CPython      *)
(* computes) or leaves it out ("exact", the real-number reading of the     *)
(* same expressions).  Exponent overflow, subnormals, infinities and NaN   *)
(* are not modelled: the parameter sets keep every value far inside the    *)
(* normal range.                                                           *)
(***************************************************************************)
EXTENDS Integers, Sequences, FiniteSets, TLC

VARIABLES arith, pc, arg, self, t, n, runs

vars == <<arith, pc, arg, self, t, n, runs>>

(***************************************************************************)
(* Natural numbers of any size: sequences of limbs in base 2^15, least     *)
(* significant first, without leading zero limbs (zero is <<>>).           *)
(***************************************************************************)
LimbBits == 14 + 1

Base == 2^LimbBits

Min(a, b) == IF a <= b THEN a ELSE b

Max(a, b) == IF a >= b THEN a ELSE b

\* the sequence f as an explicit tuple (TLC keeps [i \in 1..k |-> e] unevaluated)
Tup(f) == f \o <<>>

Limb(a, i) == IF i >= 1 /\ i <= Len(a) THEN a[i] ELSE 0

\* a without its leading zero limbs
BTrim(a) ==
    LET nz == {i \in 1..Len(a) : a[i] # 0}
    IN  IF nz = {} THEN <<>>
        ELSE SubSeq(a, 1, CHOOSE i \in nz : \A j \in nz : j <= i)

RECURSIVE BFromInt(_)
BFromInt(k) == IF k = 0 THEN <<>> ELSE <<k % Base>> \o BFromInt(k \div Base)

RECURSIVE BToInt(_)
BToInt(a) == IF a = <<>> THEN 0 ELSE a[1] + Base * BToInt(Tail(a))

\* The carry chains below split their range in halves, so that the nesting of
\* the evaluation grows with the logarithm of the length.

\* limbs lo..hi of a + b + carry c: <<limbs, carry out>>
RECURSIVE AddRange(_, _, _, _, _)
AddRange(a, b, lo, hi, c) ==
    IF lo > hi THEN <<<<>>, c>>
    ELSE IF lo = hi
    THEN LET s == Limb(a, lo) + Limb(b, lo) + c IN <<<<s % Base>>, s \div Base>>
    ELSE LET mid == (lo + hi) \div 2
             l == AddRange(a, b, lo, mid, c)
             r == AddRange(a, b, mid + 1, hi, l[2])
         IN  <<l[1] \o r[1], r[2]>>

BAdd(a, b) ==
    LET r == AddRange(a, b, 1, Max(Len(a), Len(b)), 0)
    IN  IF r[2] = 0 THEN r[1] ELSE Append(r[1], r[2])

\* limbs lo..hi of a - b - borrow c: <<limbs, borrow out>>
RECURSIVE SubRange(_, _, _, _, _)
SubRange(a, b, lo, hi, c) ==
    IF lo > hi THEN <<<<>>, c>>
    ELSE IF lo = hi
    THEN LET s == a[lo] - Limb(b, lo) - c
         IN  IF s < 0 THEN <<<<s + Base>>, 1>> ELSE <<<<s>>, 0>>
    ELSE LET mid == (lo + hi) \div 2
             l == SubRange(a, b, lo, mid, c)
             r == SubRange(a, b, mid + 1, hi, l[2])
         IN  <<l[1] \o r[1], r[2]>>

\* a - b for a >= b
BSub(a, b) == BTrim(SubRange(a, b, 1, Len(a), 0)[1])

\* -1, 0, 1 as a < b, a = b, a > b
BCmp(a, b) ==
    IF Len(a) > Len(b) THEN 1
    ELSE IF Len(a) < Len(b) THEN -1
    ELSE LET df == {i \in 1..Len(a) : a[i] # b[i]}
         IN  IF df = {} THEN 0
             ELSE LET i == CHOOSE k \in df : \A j \in df : j <= k
                  IN  IF a[i] > b[i] THEN 1 ELSE -1

\* the sums of the low and of the high halves of the limb products
\* a[i] * b[k + 1 - i], i in lo..hi
RECURSIVE ColSum(_, _, _, _, _)
ColSum(a, b, k, lo, hi) ==
    IF lo > hi THEN <<0, 0>>
    ELSE IF lo = hi
    THEN LET p == a[lo] * b[k + 1 - lo] IN <<p % Base, p \div Base>>
    ELSE LET mid == (lo + hi) \div 2
             l == ColSum(a, b, k, lo, mid)
             r == ColSum(a, b, k, mid + 1, hi)
         IN  <<l[1] + r[1], l[2] + r[2]>>

\* the digits d[lo..hi] (each below 2^31 - carry) with carry c: <<limbs, carry out>>
RECURSIVE Carry(_, _, _, _)
Carry(d, lo, hi, c) ==
    IF lo > hi THEN <<<<>>, c>>
    ELSE IF lo = hi
    THEN LET s == d[lo] + c IN <<<<s % Base>>, s \div Base>>
    ELSE LET mid == (lo + hi) \div 2
             l == Carry(d, lo, mid, c)
             r == Carry(d, mid + 1, hi, l[2])
         IN  <<l[1] \o r[1], r[2]>>

BMul(a, b) ==
    IF a = <<>> \/ b = <<>> THEN <<>>
    ELSE LET la == Len(a)
             lb == Len(b)
             col == Tup([k \in 1..(la + lb - 1) |->
                        ColSum(a, b, k, Max(1, k + 1 - lb), Min(la, k))])
             d == Tup([k \in 1..(la + lb) |->
                        (IF k <= la + lb - 1 THEN col[k][1] ELSE 0)
                      + (IF k >= 2 THEN col[k - 1][2] ELSE 0)])
         IN  BTrim(Carry(d, 1, la + lb, 0)[1])

\* a * 2^k
BShl(a, k) ==
    IF a = <<>> \/ k = 0 THEN a
    ELSE LET q == k \div LimbBits
             r == k % LimbBits
             m == 2^r
             w == 2^(LimbBits - r)
             la == Len(a)
         IN  BTrim(Tup([i \in 1..(la + q + 1) |->
                      IF i <= q THEN 0
                      ELSE (Limb(a, i - q) % w) * m + Limb(a, i - q - 1) \div w]))

\* floor(a / 2^k)
BShr(a, k) ==
    IF k = 0 THEN a
    ELSE LET q == k \div LimbBits
             r == k % LimbBits
             m == 2^r
             w == 2^(LimbBits - r)
             la == Len(a)
         IN  IF q >= la THEN <<>>
             ELSE BTrim(Tup([i \in 1..(la - q) |->
                          a[i + q] \div m + (Limb(a, i + q + 1) % m) * w]))

RECURSIVE BitLenInt(_)
BitLenInt(k) == IF k = 0 THEN 0 ELSE 1 + BitLenInt(k \div 2)

BBitLen(a) ==
    IF a = <<>> THEN 0 ELSE (Len(a) - 1) * LimbBits + BitLenInt(a[Len(a)])

\* bit k of a, the lowest being bit 0
BBit(a, k) == (Limb(a, k \div LimbBits + 1) \div 2^(k % LimbBits)) % 2

\* a mod 2^k = 0
BLowZero(a, k) ==
    /\ \A i \in 1..Min(Len(a), k \div LimbBits) : a[i] = 0
    /\ Limb(a, k \div LimbBits + 1) % 2^(k % LimbBits) = 0

RECURSIVE TzInt(_)
TzInt(k) == IF k % 2 = 1 THEN 0 ELSE 1 + TzInt(k \div 2)

\* the number of trailing zero bits of a # 0
BTz(a) ==
    LET i == CHOOSE k \in 1..Len(a) : a[k] # 0 /\ \A j \in 1..(k - 1) : a[j] = 0
    IN  (i - 1) * LimbBits + TzInt(a[i])

\* Long division, bit by bit.  One step: the remainder so far doubled plus the
\* next bit of the dividend is r2, the quotient so far doubled is q2.
DivBit2(b, q2, r2) ==
    IF BCmp(r2, b) >= 0 THEN <<BAdd(q2, <<1>>), BSub(r2, b)>> ELSE <<q2, r2>>

\* bit i of a brought down to qr = <<quotient, remainder>>
DivBit(a, b, i, qr) ==
    DivBit2(b, BShl(qr[1], 1), BAdd(BShl(qr[2], 1), BFromInt(BBit(a, i))))

\* bits i down to lo of a (the test on next makes TLC compute it at once)
RECURSIVE DivBits(_, _, _, _, _)
DivBitsOn(a, b, i, lo, next) ==
    IF Len(next) = 2 THEN DivBits(a, b, i, lo, next) ELSE next

DivBits(a, b, i, lo, qr) ==
    IF i < lo THEN qr ELSE DivBitsOn(a, b, i - 1, lo, DivBit(a, b, i, qr))

\* limb j of a downwards (two levels keep the nesting of the evaluation low)
RECURSIVE BDivStep(_, _, _, _)
BDivStepOn(a, b, j, next) ==
    IF Len(next) = 2 THEN BDivStep(a, b, j, next) ELSE next

BDivStep(a, b, j, qr) ==
    IF j < 1 THEN qr
    ELSE BDivStepOn(a, b, j - 1,
                    DivBits(a, b, j * LimbBits - 1, (j - 1) * LimbBits, qr))

\* <<floor(a / b), a mod b>> for b # 0
BDivMod(a, b) == BDivStep(a, b, Len(a), <<<<>>, <<>>>>)

(***************************************************************************)
(* Numbers: [sg, man, ex] with man odd, or zero (man = <<>>, ex = 0, the   *)
(* sign kept: binary64 has -0.0).                                          *)
(***************************************************************************)
Prec == 53

Canon(sg, man, ex) ==
    IF man = <<>> THEN [sg |-> sg, man |-> <<>>, ex |-> 0]
    ELSE LET z == BTz(man)
         IN  [sg |-> sg, man |-> BShr(man, z), ex |-> ex + z]

\* a Python int, which converts to float exactly when it has at most 53 bits
FromInt(k) == IF k < 0 THEN Canon(1, BFromInt(-k), 0) ELSE Canon(0, BFromInt(k), 0)

Zero == FromInt(0)

One == FromInt(1)

IsZero(x) == x.man = <<>>

Neg(x) == [x EXCEPT !.sg = 1 - x.sg]

\* round to nearest, ties to even, at Prec significant bits
Round(x) ==
    LET len == BBitLen(x.man)
        sh == len - Prec
    IN  IF sh <= 0 THEN x
        ELSE LET q == BShr(x.man, sh)
                 half == BBit(x.man, sh - 1) = 1
                 sticky == ~BLowZero(x.man, sh - 1)
                 up == half /\ (sticky \/ BBit(q, 0) = 1)
             IN  Canon(x.sg, IF up THEN BAdd(q, <<1>>) ELSE q, x.ex + sh)

\* x + y exactly
XAdd(x, y) ==
    IF IsZero(x) THEN (IF IsZero(y) THEN (IF x.sg = 1 /\ y.sg = 1 THEN x ELSE Zero) ELSE y)
    ELSE IF IsZero(y) THEN x
    ELSE LET e == Min(x.ex, y.ex)
             a == BShl(x.man, x.ex - e)
             b == BShl(y.man, y.ex - e)
             c == BCmp(a, b)
         IN  IF x.sg = y.sg THEN Canon(x.sg, BAdd(a, b), e)
             ELSE IF c = 0 THEN Zero
             ELSE IF c > 0 THEN Canon(x.sg, BSub(a, b), e)
             ELSE Canon(y.sg, BSub(b, a), e)

\* x * y exactly
XMul(x, y) == Canon((x.sg + y.sg) % 2, BMul(x.man, y.man), x.ex + y.ex)

\* the quotient q with a last bit recording whether a remainder is left
WithSticky(qr) == BAdd(BShl(qr[1], 1), IF qr[2] = <<>> THEN <<>> ELSE <<1>>)

\* x / y (y # 0) rounded to binary64: the quotient to at least Prec + 2 bits,
\* the remainder bit, then Round
FDiv(x, y) ==
    IF IsZero(x) THEN Canon((x.sg + y.sg) % 2, <<>>, 0)
    ELSE LET k == Max(0, Prec + 2 + BBitLen(y.man) - BBitLen(x.man))
         IN  Round(Canon((x.sg + y.sg) % 2,
                         WithSticky(BDivMod(BShl(x.man, k), y.man)),
                         x.ex - y.ex - k - 1))

\* comparisons of the values (0.0 = -0.0)
Sign(x) == IF IsZero(x) THEN 0 ELSE IF x.sg = 1 THEN -1 ELSE 1

Cmp(x, y) == Sign(XAdd(x, Neg(y)))

Lt(x, y) == Cmp(x, y) < 0

Le(x, y) == Cmp(x, y) <= 0

Eq(x, y) == Cmp(x, y) = 0

\* a decimal literal p/q of the source text: the binary64 value nearest to it
Lit(p, q) == FDiv(FromInt(p), FromInt(q))

\* int(x): truncation toward zero
IntOf(x) ==
    LET m == IF x.ex >= 0 THEN BShl(x.man, x.ex) ELSE BShr(x.man, -x.ex)
    IN  IF x.sg = 1 THEN -BToInt(m) ELSE BToInt(m)

(***************************************************************************)
(* The arithmetic of the source's float expressions.                       *)
(***************************************************************************)
Fl(x) == IF arith = "binary64" THEN Round(x) ELSE x

Add(x, y) == Fl(XAdd(x, y))

Sub(x, y) == Fl(XAdd(x, Neg(y)))

Mul(x, y) == Fl(XMul(x, y))

\* x / y.  Without rounding the quotient is kept only when y is a power of two
\* (the parameter sets of the exact arithmetic have such divisors alone).
Div(x, y) ==
    IF arith = "binary64" \/ y.man # <<1>> THEN FDiv(x, y)
    ELSE Canon((x.sg + y.sg) % 2, x.man, x.ex - y.ex)

\* dt = 0.01
dt == Lit(1, 100)

(***************************************************************************)
(* Constructor arguments.  populacao, infectado, curado, mortos and leitos *)
(* are Python ints, as in the script's call; the rates and the simulation  *)
(* time are floats.  MaxSimT bounds the simulation time, in hundredths.    *)
(***************************************************************************)
MaxSimT == 2

MaxRuns == 2

Populacoes == {4, 10}

Infectados == {1, 4}

Curados == {0, 1}

Mortos == {0, 1}

Betas == {Zero, Round(XMul(FromInt(3), Lit(10, 100))), FromInt(200)}

Gamas == {Lit(1, 10), FromInt(200)}

TDeaths == {Lit(4, 100), Lit(3, 10), One}

SimulationTimes == {Lit(k, 100) : k \in 1..MaxSimT}

Leitos == {744, 5623}

ValidArgs ==
    [populacao : Populacoes, beta : Betas, gama : Gamas, tDeath : TDeaths,
     infectado : Infectados, curado : Curados, mortos : Mortos,
     simulationTime : SimulationTimes, leitos : Leitos]

BaseArgs ==
    [populacao |-> 4, beta |-> Round(XMul(FromInt(3), Lit(10, 100))),
     gama |-> FDiv(One, FromInt(4)), tDeath |-> Lit(4, 100), infectado |-> 1,
     curado |-> 0, mortos |-> 0, simulationTime |-> Lit(2, 100), leitos |-> 744]

\* arguments the constructor accepts without a check of its own
OtherArgs ==
    {[BaseArgs EXCEPT !.populacao = 0],
     [BaseArgs EXCEPT !.populacao = -4],
     [BaseArgs EXCEPT !.beta = Neg(Lit(3, 10))],
     [BaseArgs EXCEPT !.gama = Neg(Lit(1, 4))],
     [BaseArgs EXCEPT !.tDeath = Lit(3, 2)],
     [BaseArgs EXCEPT !.tDeath = Neg(Lit(1, 2))],
     [BaseArgs EXCEPT !.infectado = 5],
     [BaseArgs EXCEPT !.simulationTime = Zero],
     [BaseArgs EXCEPT !.simulationTime = Neg(Lit(2, 100))]}

Args == ValidArgs \cup OtherArgs

\* the arguments whose divisions by populacao are exact in binary
ExactArgs == {a \in Args : a.populacao \in {4, -4}}

(***************************************************************************)
(* Doenca.__init__                                                         *)
(***************************************************************************)
\* self.tDeath = tDeath * gama
DeathRate(a) == Mul(a.tDeath, a.gama)

\* self.tCuradas = gama * (1 - tDeath)
\* the cured rate taken from the attribute __init__ has just overwritten
CureRateFromStored(a) == Mul(a.gama, Sub(One, DeathRate(a)))

CureRate(a) == Mul(a.gama, Sub(One, a.tDeath))

\* self.S = [(populacao - infectado) / populacao]
InitialS(a) == Div(FromInt(a.populacao - a.infectado), FromInt(a.populacao))

Construct(a) ==
    IF a.populacao = 0
    THEN [raised |-> "ZeroDivisionError"]
    ELSE [simulationTime |-> a.simulationTime,
          populacao |-> a.populacao,
          beta |-> a.beta,
          gama |-> a.gama,
          tDeath |-> DeathRate(a),
          tCuradas |-> CureRate(a),
          I |-> <<Div(FromInt(a.infectado), FromInt(a.populacao))>>,
          C |-> <<Div(FromInt(a.curado), FromInt(a.populacao))>>,
          D |-> <<Div(FromInt(a.mortos), FromInt(a.populacao))>>,
          S |-> <<InitialS(a)>>,
          time |-> <<Zero>>,
          leitos |-> <<a.leitos>>]

Constructed(a) ==
    /\ arg = a
    /\ self = Construct(a)
    /\ pc = IF a.populacao = 0 THEN "raised" ELSE "constructed"
    /\ t = 0
    /\ n = 0
    /\ runs = 0

Init == arith = "binary64" /\ \E a \in Args : Constructed(a)

InitExact == arith = "exact" /\ \E a \in ExactArgs : Constructed(a)

(***************************************************************************)
(* Doenca.run                                                              *)
(***************************************************************************)
Last(q) == q[Len(q)]

\* range(int(self.simulationTime / dt)): the division and int() are those of
\* the machine in either arithmetic
\* a range that includes its end point
RangeLenInclusive(simulationTime) == IntOf(FDiv(simulationTime, dt)) + 1

RangeLen(simulationTime) == IntOf(FDiv(simulationTime, dt))

Enter ==
    /\ pc' = "loop"
    /\ n' = RangeLen(self.simulationTime)
    /\ t' = 0
    /\ UNCHANGED <<arith, arg, self, runs>>

\* run() on the instance just built
Run == pc = "constructed" /\ Enter

\* run() once more, on an instance run() has already converted
RunAgain == pc = "done" /\ runs < MaxRuns /\ Enter

\* the infected update with the removal term added
NextIGrowing(o) ==
    Add(Last(o.I),
        Mul(Add(Mul(Mul(o.beta, Last(o.I)), Last(o.S)), Mul(o.gama, Last(o.I))), dt))

NextI(o) ==
    Add(Last(o.I), Mul(Sub(Mul(Mul(o.beta, Last(o.I)), Last(o.S)),
                           Mul(o.gama, Last(o.I))), dt))

NextC(o) == Add(Last(o.C), Mul(Mul(o.tCuradas, Last(o.I)), dt))

\* the dead update with the cured coefficient
NextDCured(o) == Add(Last(o.D), Mul(Mul(o.tCuradas, Last(o.I)), dt))

NextD(o) == Add(Last(o.D), Mul(Mul(o.tDeath, Last(o.I)), dt))

\* the susceptible update with the infection term added
NextSGrowing(o) == Add(Last(o.S), Mul(Mul(Mul(o.beta, Last(o.I)), Last(o.S)), dt))

\* the susceptible update reading the infected value of the same pass
NextSCascade(o) == Sub(Last(o.S), Mul(Mul(Mul(o.beta, NextI(o)), Last(o.S)), dt))

NextS(o) == Sub(Last(o.S), Mul(Mul(Mul(o.beta, Last(o.I)), Last(o.S)), dt))

NextTime(o) == Add(Last(o.time), dt)

\* what the loop body appends to self.leitos
LeitosAppended == 744

\* one pass of the loop body
LoopBody ==
    /\ pc = "loop"
    /\ t < n
    /\ self' = [self EXCEPT !.I = Append(@, NextI(self)),
                            !.C = Append(@, NextC(self)),
                            !.D = Append(@, NextD(self)),
                            !.S = Append(@, NextS(self)),
                            !.time = Append(@, NextTime(self)),
                            !.leitos = Append(@, LeitosAppended)]
    /\ t' = t + 1
    /\ UNCHANGED <<arith, pc, arg, n, runs>>

Scaled(q, populacao) == Tup([i \in 1..Len(q) |-> Mul(q[i], FromInt(populacao))])

\* the range is exhausted: the four lists are rebuilt in absolute numbers
Convert ==
    /\ pc = "loop"
    /\ t >= n
    /\ self' = [self EXCEPT !.I = Scaled(@, self.populacao),
                            !.C = Scaled(@, self.populacao),
                            !.D = Scaled(@, self.populacao),
                            !.S = Scaled(@, self.populacao)]
    /\ pc' = "done"
    /\ runs' = runs + 1
    /\ UNCHANGED <<arith, arg, t, n>>

Next == Run \/ LoopBody \/ Convert

NextRerun == Run \/ RunAgain \/ LoopBody \/ Convert

\* the script: one instance, run() once
Spec == Init /\ [][Next]_vars

\* the same in exact arithmetic
SpecExact == InitExact /\ [][Next]_vars

\* run() called again on a finished instance
SpecRerun == Init /\ [][NextRerun]_vars

(***************************************************************************)
(* The properties checked.                                                 *)
(***************************************************************************)
Ge0(x) == Sign(x) >= 0

Abs(x) == [x EXCEPT !.sg = 0]

\* the parameter sets the specification calls valid
Valid(a) ==
    /\ a.populacao > 0
    /\ a.infectado >= 0 /\ a.infectado <= a.populacao
    /\ a.curado >= 0 /\ a.mortos >= 0
    /\ Ge0(a.beta) /\ Ge0(a.gama)
    /\ Ge0(a.tDeath) /\ Le(a.tDeath, One)
    /\ Sign(a.simulationTime) > 0

Exists == pc \in {"constructed", "loop", "done"}

\* the lists hold fractions of the population: run() has not yet converted them
Normalized == pc \in {"constructed", "loop"} /\ runs = 0

Steps == 1..Len(self.S)

Pairs == 1..(Len(self.S) - 1)

\* S[k] + I[k] + C[k] + D[k], not rounded
Total(k) == XAdd(XAdd(XAdd(self.S[k], self.I[k]), self.C[k]), self.D[k])

\* C1: for every valid parameter set and every recorded step, before the
\* conversion, S[k] + I[k] + C[k] + D[k] is 1 (within 1e-9).
C1_SumIsOne ==
    (Normalized /\ Valid(arg)) =>
        \A k \in Steps : Le(Abs(XAdd(Total(k), Neg(One))), Lit(1, 1000000000))

\* C2: construction with an invalid parameter set fails with InvalidParameter:
\* no instance with such parameters exists, none reaches run().
C2_InvalidRejected ==
    ~Valid(arg) => (pc = "raised" /\ self.raised = "InvalidParameter")

\* C3: after run() the bed-capacity series has one entry per recorded step and
\* every entry is the bedCapacity given to the constructor.
C3_LeitosConstant ==
    pc = "done" =>
        /\ Len(self.leitos) = Len(self.time)
        /\ \A k \in 1..Len(self.leitos) : self.leitos[k] = arg.leitos

\* the integer part of a quotient q >= 0
FloorOf(q) ==
    CHOOSE m \in 0..(MaxSimT + 2) : Le(FromInt(m), q) /\ Lt(q, FromInt(m + 1))

\* floor(simulationTime / dt) for simulationTime >= 0
FloorQuotient(a) == FloorOf(FDiv(a.simulationTime, dt))

Lists(o) == <<o.time, o.S, o.I, o.C, o.D>>

IsPrefix(p, q) == Len(p) <= Len(q) /\ SubSeq(q, 1, Len(p)) = p

C4_Lengths ==
    Exists =>
        /\ \A i \in 1..5 : Len(Lists(self)[i]) = Len(self.time)
        /\ pc = "loop" => Len(self.time) = t + 1
        /\ (pc = "done" /\ Ge0(arg.simulationTime)) =>
               Len(self.time) = FloorQuotient(arg) + 1
        /\ Eq(self.time[1], Zero)
        /\ \A k \in 1..(Len(self.time) - 1) :
               /\ self.time[k + 1] = Add(self.time[k], dt)
               /\ Lt(self.time[k], self.time[k + 1])

C4_AppendOnly ==
    (pc = "loop" /\ pc' = "loop") =>
        \A i \in 1..5 :
            /\ IsPrefix(Lists(self)[i], Lists(self')[i])
            /\ Len(Lists(self')[i]) = Len(Lists(self)[i]) + 1

\* C4: time, S, I, C, D only grow by appending while the loop runs, have the
\* same length after every pass, end with floor(simulationTime / dt) + 1 entries
\* (simulationTime >= 0), and time starts at 0 and grows by dt at every step.
C4_AppendOnlySameLength == [](C4_Lengths) /\ [][C4_AppendOnly]_vars

C4_Witness ==
    pc = "done" /\ Len(self.time) = 3 /\ Valid(arg) /\ Lt(self.I[2], self.I[1])

\* C5: S, I, C, D are multiplied by population once, and nothing, a further
\* run() included, converts again: a recorded value is the fraction or the
\* fraction times population.
C5_ConvertedOnce ==
    Exists =>
        self.S[1] \in {InitialS(arg), Mul(InitialS(arg), FromInt(arg.populacao))}

\* C6 as stated: for every valid parameter set S never increases.
C6_SNonIncreasing ==
    (Exists /\ Valid(arg)) => \A k \in Pairs : Le(self.S[k + 1], self.S[k])

\* C6, amended: for every valid parameter set, S[k+1] <= S[k] at every step
\* whose S[k] and I[k] are not negative.
C6_SNonIncreasingWhileNonNegative ==
    (Exists /\ Valid(arg)) =>
        \A k \in Pairs :
            (Ge0(self.S[k]) /\ Ge0(self.I[k])) => Le(self.S[k + 1], self.S[k])

C6_Witness ==
    /\ pc = "done" /\ Valid(arg) /\ Len(self.S) = 3
    /\ \A k \in Pairs : Ge0(self.S[k]) /\ Ge0(self.I[k])
    /\ Lt(self.S[3], self.S[2]) /\ Lt(self.S[2], self.S[1])

\* C7 as stated: with beta = 0, S stays at S[0] and I never increases.
C7_BetaZero ==
    (Exists /\ Valid(arg) /\ IsZero(arg.beta)) =>
        /\ \A k \in Steps : Eq(self.S[k], self.S[1])
        /\ \A k \in Pairs : Le(self.I[k + 1], self.I[k])

\* C7, amended: with beta = 0, S stays at S[0], and I[k+1] <= I[k] at every
\* step whose I[k] is not negative.
C7_BetaZeroWhileNonNegative ==
    (Exists /\ Valid(arg) /\ IsZero(arg.beta)) =>
        /\ \A k \in Steps : Eq(self.S[k], self.S[1])
        /\ \A k \in Pairs : Ge0(self.I[k]) => Le(self.I[k + 1], self.I[k])

C7_Witness ==
    /\ pc = "done" /\ Valid(arg) /\ IsZero(arg.beta) /\ Len(self.I) = 3
    /\ Lt(self.I[2], self.I[1]) /\ Lt(self.I[3], self.I[2])
    /\ Sign(self.S[1]) > 0

\* C8: every pass of the loop is the simultaneous explicit Euler step: the
\* four new values are the reference update of the four previous ones.
C8_SimultaneousEuler ==
    Normalized =>
        \A k \in Pairs :
            LET Sp == self.S[k]
                Ip == self.I[k]
            IN  /\ self.I[k + 1] =
                     Add(Ip, Mul(Sub(Mul(Mul(self.beta, Ip), Sp), Mul(self.gama, Ip)), dt))
                /\ self.C[k + 1] = Add(self.C[k], Mul(Mul(self.tCuradas, Ip), dt))
                /\ self.D[k + 1] = Add(self.D[k], Mul(Mul(self.tDeath, Ip), dt))
                /\ self.S[k + 1] = Sub(Sp, Mul(Mul(Mul(self.beta, Ip), Sp), dt))

C8_Witness ==
    /\ pc = "loop" /\ t = 2 /\ Valid(arg)
    /\ ~IsZero(self.beta) /\ ~IsZero(self.gama)
    /\ ~Eq(self.I[2], self.I[1]) /\ ~Eq(self.S[3], self.S[2])

CoefficientsDerived ==
    /\ self.tDeath = Mul(arg.tDeath, arg.gama)
    /\ self.tCuradas = Mul(arg.gama, Sub(One, arg.tDeath))

\* C9 as stated: mortalityRate = deathFraction * gamma, cureRate =
\* gamma * (1 - deathFraction), and mortalityRate + cureRate = gamma exactly.
C9_CoefficientsSumExactly ==
    Exists =>
        /\ CoefficientsDerived
        /\ Eq(Add(self.tDeath, self.tCuradas), self.gama)

\* C9, amended: the two coefficients are those products, cureRate from the
\* deathFraction argument, and for deathFraction in [0, 1] their sum is gamma
\* up to the rounding of the products: it differs from gamma by at most
\* 2^-51 * |gamma|.
C9_CoefficientsSumRounded ==
    Exists =>
        /\ CoefficientsDerived
        /\ (Ge0(arg.tDeath) /\ Le(arg.tDeath, One)) =>
              Le(Abs(XAdd(XAdd(self.tDeath, self.tCuradas), Neg(self.gama))),
                 XMul(Canon(0, <<1>>, -51), Abs(self.gama)))

C9_Witness ==
    /\ pc = "constructed" /\ Valid(arg)
    /\ ~Eq(Add(self.tDeath, self.tCuradas), self.gama)

\* the total of the constructed state: 1 + (initialCured + initialDead) / population
InitialTotal(a) ==
    XAdd(One, Div(FromInt(a.curado + a.mortos), FromInt(a.populacao)))

\* C10: in exact arithmetic every pass of the loop keeps S + I + C + D, so the
\* total is the one of the constructed state at every step, and population
\* times it at every index after the conversion.
C10_TotalPreserved ==
    Exists =>
        /\ \A k \in Pairs : Total(k + 1) = Total(k)
        /\ \A k \in Steps :
              Total(k) = IF pc = "done"
                         THEN XMul(InitialTotal(arg), FromInt(arg.populacao))
                         ELSE InitialTotal(arg)

C10_Witness ==
    /\ pc = "done" /\ arith = "exact" /\ Len(self.S) = 3
    /\ arg.curado = 1 /\ arg.mortos = 1
    /\ ~Eq(self.S[3], self.S[2]) /\ ~Eq(self.D[3], self.D[2])
    /\ ~Eq(self.C[3], self.C[1])
====
